---- MODULE Spec2Model ----
(***************************************************************************)
(* The two markowitz functions of the repository, src/markowitz.py (the    *)
(* paper listing, "paper") and src/experiments/markowitz.py ("exp"), as a  *)
(* state machine over one call: import of the module, construction of the  *)
(* objective and constraints, the single problem.solve(), and the return   *)
(* statements.                                                             *)
(*                                                                         *)
(* Numbers.  Weights and cash are integers (1 is the whole portfolio) on   *)
(* the grid -WMax..WMax.  The objective and the risk terms, which contain  *)
(* square roots, are carried in fixed point with Scale units per 1.0,      *)
(* square roots rounded down.                                              *)
(*                                                                         *)
(* Python's None is the empty tuple; a scalar .value that may be None is   *)
(* held as the one-element tuple <<c>>.  A Data or Parameters object is a  *)
(* record whose DOMAIN is the set of attributes the object has: reading an *)
(* attribute outside it raises AttributeError.                             *)
(***************************************************************************)
EXTENDS Integers, Sequences, FiniteSets, TLC

NAssets == 2
WMax == 2
Scale == 100
NCalls == 2

Calls == 1..NCalls
Assets == 1..NAssets
WGrid == (0 - WMax)..WMax

None == << >>
Some(x) == <<x>>

\* ------------------------------------------------------------------ numpy / cvxpy atoms

RECURSIVE SumFirst(_, _)
SumFirst(v, n) == IF n = 0 THEN 0 ELSE v[n] + SumFirst(v, n - 1)
SumSeq(v) == SumFirst(v, Len(v))

Abs(x) == IF x < 0 THEN 0 - x ELSE x
Pos(x) == IF x > 0 THEN x ELSE 0

Dot(a, b) == SumSeq([i \in 1..Len(a) |-> a[i] * b[i]])
VecAbs(v) == [i \in 1..Len(v) |-> Abs(v[i])]
VecPos(v) == [i \in 1..Len(v) |-> Pos(v[i])]
VecNeg(v) == [i \in 1..Len(v) |-> 0 - v[i]]
VecSub(a, b) == [i \in 1..Len(a) |-> a[i] - b[i]]
VecMul(a, b) == [i \in 1..Len(a) |-> a[i] * b[i]]
VecLeq(a, b) == \A i \in 1..Len(a) : a[i] <= b[i]
Norm1(v) == SumSeq(VecAbs(v))
SumSq(v) == Dot(v, v)

\* floor of the square root of x >= 0, by bisection on lo <= root < hi
RECURSIVE SqrtBetween(_, _, _)
SqrtBetween(x, lo, hi) ==
    IF hi - lo <= 1 THEN lo
    ELSE LET mid == (lo + hi) \div 2
         IN  IF mid * mid <= x THEN SqrtBetween(x, mid, hi)
             ELSE SqrtBetween(x, lo, mid)
ISqrt(x) == IF x <= 0 THEN 0 ELSE SqrtBetween(x, 0, x + 1)

\* Scale * sqrt(x) for an integer x >= 0, and Scale * a^(3/2)
SqrtS(x) == ISqrt(Scale * Scale * x)
Power32S(a) == ISqrt(Scale * Scale * a * a * a)
\* cp.norm2 of a vector already in fixed point
Norm2S(v) == ISqrt(SumSq(v))

\* F @ C for an n x k matrix F and a k x k matrix C (tuples of rows)
MatMul(F, C) ==
    [i \in 1..Len(F) |->
        [j \in 1..Len(C) |-> SumSeq([l \in 1..Len(C) |-> F[i][l] * C[l][j]])]]
\* M.T @ w for an n x k matrix M and an n-vector w
TransposeApply(M, w) ==
    [j \in 1..Len(M[1]) |-> SumSeq([i \in 1..Len(M) |-> M[i][j] * w[i]])]

\* ------------------------------------------------------------------ expressions of markowitz

\* z = w - data.w_prev; T and L (T is halved in src/experiments only)
z(d, w) == VecSub(w, d.w_prev)
TPaperS(d, w) == Scale * Norm1(z(d, w))
TExpS(d, w) == (Scale * Norm1(z(d, w))) \div 2
L(w) == Norm1(w)

\* worst-case (robust) return
factor_return(d, w) ==
    Dot([i \in 1..Len(d.F) |-> Dot(d.F[i], d.factor_mean)], w)
idio_return(d, w) == Dot(d.idio_mean, w)
mean_return(d, w, c) == factor_return(d, w) + idio_return(d, w) + d.risk_free * c
return_uncertainty(p, w) == Dot(p.rho_mean, VecAbs(w))
return_wc(d, p, w, c) == mean_return(d, w, c) - return_uncertainty(p, w)

\* asset volatilities (Data.volas in src/experiments), in fixed point
factor_volasS(d) ==
    LET FC == MatMul(d.F, d.factor_covariance_chol)
    IN  [i \in 1..Len(FC) |-> SqrtS(SumSq(FC[i]))]
volasS(d) ==
    [i \in 1..Len(d.idio_volas) |-> factor_volasS(d)[i] + Scale * d.idio_volas[i]]

\* portfolio risk and worst-case (robust) risk, in fixed point
factor_riskS(d, w) ==
    SqrtS(SumSq(TransposeApply(MatMul(d.F, d.factor_covariance_chol), w)))
idio_riskS(d, w) == SqrtS(SumSq(VecMul(d.idio_volas, w)))
riskS(d, w) == Norm2S(<<factor_riskS(d, w), idio_riskS(d, w)>>)
risk_uncertaintyS(d, p, w) ==
    (SqrtS(p.rho_covariance) * Dot(volasS(d), VecAbs(w))) \div Scale
risk_wcS(d, p, w) == Norm2S(<<riskS(d, w), risk_uncertaintyS(d, p, w)>>)

asset_holding_cost(d, w) == Dot(d.kappa_short, VecPos(VecNeg(w)))
cash_holding_cost(d, c) == d.kappa_borrow * Pos(0 - c)
holding_cost(d, w, c) == asset_holding_cost(d, w) + cash_holding_cost(d, c)

spread_cost(d, w) == Dot(d.kappa_spread, VecAbs(z(d, w)))
impact_costS(d, w) ==
    SumSeq([i \in 1..Len(w) |-> d.kappa_impact[i] * Power32S(Abs(z(d, w)[i]))])
trading_costS(d, w) == Scale * spread_cost(d, w) + impact_costS(d, w)

\* the objective handed to cp.Maximize, in fixed point
ObjectivePaper(d, p, w, c) ==
    Scale * return_wc(d, p, w, c)
    - p.gamma_risk * Pos(risk_wcS(d, p, w) - Scale * p.risk_target)
    - p.gamma_hold * Scale * holding_cost(d, w, c)
    - p.gamma_trade * trading_costS(d, w)
    - p.gamma_turn * Pos(TPaperS(d, w) - Scale * p.T_max)

ObjectiveExp(d, p, w, c) ==
    Scale * return_wc(d, p, w, c)
    - p.gamma_risk * Pos(risk_wcS(d, p, w) - Scale * p.risk_target)
    - p.gamma_hold * Scale * holding_cost(d, w, c)
    - p.gamma_trade * trading_costS(d, w)
    - p.gamma_turn * Pos(TExpS(d, w) - Scale * p.T_max)
    - p.gamma_leverage * Scale * Pos(L(w) - p.L_max)

\* ConstraintsPaper with the upper bound on the weights left out
ConstraintsPaperNoUpper(d, p, w, c) ==
    /\ SumSeq(w) + c = 1
    /\ c = d.c_prev - SumSeq(z(d, w))
    /\ p.c_lower <= c
    /\ c <= p.c_upper
    /\ VecLeq(p.w_lower, w)
    /\ VecLeq(p.z_lower, z(d, w))
    /\ VecLeq(z(d, w), p.z_upper)
    /\ L(w) <= p.L_max

\* ConstraintsExp with the budget equality left out
ConstraintsExpNoBudget(d, p, w, c) ==
    /\ VecLeq(p.w_min, w)
    /\ VecLeq(w, p.w_max)
    /\ L(w) <= p.L_tar
    /\ p.c_min <= c
    /\ c <= p.c_max
    /\ VecLeq(p.z_min, z(d, w))
    /\ VecLeq(z(d, w), p.z_max)
    /\ TExpS(d, w) <= Scale * p.T_tar
    /\ risk_wcS(d, p, w) <= Scale * p.risk_target

\* the hard constraints, in the order of the source lists
ConstraintsPaper(d, p, w, c) ==
    /\ SumSeq(w) + c = 1
    /\ c = d.c_prev - SumSeq(z(d, w))
    /\ p.c_lower <= c
    /\ c <= p.c_upper
    /\ VecLeq(p.w_lower, w)
    /\ VecLeq(w, p.w_upper)
    /\ VecLeq(p.z_lower, z(d, w))
    /\ VecLeq(z(d, w), p.z_upper)
    /\ L(w) <= p.L_max

ConstraintsExp(d, p, w, c) ==
    /\ SumSeq(w) + c = 1
    /\ VecLeq(p.w_min, w)
    /\ VecLeq(w, p.w_max)
    /\ L(w) <= p.L_tar
    /\ p.c_min <= c
    /\ c <= p.c_max
    /\ VecLeq(p.z_min, z(d, w))
    /\ VecLeq(z(d, w), p.z_max)
    /\ TExpS(d, w) <= Scale * p.T_tar
    /\ risk_wcS(d, p, w) <= Scale * p.risk_target

Objective(m, d, p, w, c) ==
    IF m = "paper" THEN ObjectivePaper(d, p, w, c) ELSE ObjectiveExp(d, p, w, c)
Constraints(m, d, p, w, c) ==
    IF m = "paper" THEN ConstraintsPaper(d, p, w, c) ELSE ConstraintsExp(d, p, w, c)

\* ------------------------------------------------------------------ Data and Parameters

Impls == {"paper", "exp"}

\* the fields the dataclasses declare
DataFields(m) ==
    {"w_prev", "idio_mean", "factor_mean", "risk_free", "factor_covariance_chol",
     "idio_volas", "F", "kappa_short", "kappa_borrow", "kappa_spread", "kappa_impact"}
    \cup (IF m = "paper" THEN {"c_prev"} ELSE {})

ParametersFields(m) ==
    IF m = "paper"
    THEN {"w_lower", "w_upper", "c_lower", "c_upper", "z_lower", "z_upper",
          "T_max", "L_max", "rho_mean", "rho_covariance", "gamma_hold",
          "gamma_trade", "gamma_turn", "gamma_risk", "risk_target"}
    ELSE {"w_min", "w_max", "c_min", "c_max", "z_min", "z_max", "T_tar", "L_tar",
          "risk_target", "rho_mean", "rho_covariance", "gamma_hold", "gamma_trade",
          "gamma_turn", "gamma_risk", "gamma_leverage"}

\* attributes an object may carry beyond the declared fields (the dataclasses are
\* neither frozen nor slotted, and the annotations are not enforced)
ExtraDataAttrs == {"c_prev"}
ExtraParametersAttrs == {"T_max", "L_max"}

ConstVec(v) == [i \in Assets |-> v]
FirstVec(a, b) == [i \in Assets |-> IF i = 1 THEN a ELSE b]
ZeroVec == ConstVec(0)

\* One valuation of every attribute either file reads: previous allocation (1, 0, ...)
\* with no cash, one factor with no exposure, no costs, wide bounds.
BaseInput ==
    [w_prev |-> FirstVec(1, 0), c_prev |-> 0,
     idio_mean |-> FirstVec(0, 1), factor_mean |-> <<0>>, risk_free |-> 0,
     factor_covariance_chol |-> << <<1>> >>, idio_volas |-> ZeroVec,
     F |-> ConstVec(<<0>>), kappa_short |-> ZeroVec, kappa_borrow |-> 0,
     kappa_spread |-> ZeroVec, kappa_impact |-> ZeroVec,
     w_lower |-> ConstVec(-1), w_upper |-> ConstVec(1),
     w_min |-> ConstVec(-1), w_max |-> ConstVec(1),
     c_lower |-> -1, c_upper |-> 1, c_min |-> -1, c_max |-> 1,
     z_lower |-> ConstVec(-2), z_upper |-> ConstVec(2),
     z_min |-> ConstVec(-2), z_max |-> ConstVec(2),
     T_max |-> 2, L_max |-> 2, T_tar |-> 2, L_tar |-> 2,
     risk_target |-> 2, rho_mean |-> ZeroVec, rho_covariance |-> 0,
     gamma_hold |-> 0, gamma_trade |-> 0, gamma_turn |-> 0, gamma_risk |-> 0,
     gamma_leverage |-> 0]

NoChange == [f \in {} |-> 0]

\* the ways an input differs from BaseInput
Overrides ==
    {NoChange,
     [c_prev |-> 1],
     [w_prev |-> ZeroVec],
     [w_prev |-> ConstVec(1)],
     [w_lower |-> ConstVec(1), w_upper |-> ZeroVec, w_min |-> ConstVec(1), w_max |-> ZeroVec],
     [c_lower |-> 1, c_upper |-> 0, c_min |-> 1, c_max |-> 0],
     [z_lower |-> ConstVec(1), z_upper |-> ConstVec(-1),
      z_min |-> ConstVec(1), z_max |-> ConstVec(-1)],
     [z_lower |-> ZeroVec, z_upper |-> ZeroVec, z_min |-> ZeroVec, z_max |-> ZeroVec],
     [c_lower |-> 0, c_min |-> 0],
     [T_max |-> 0],
     [T_tar |-> 0],
     [L_max |-> 0],
     [L_tar |-> 0],
     [L_max |-> 1, L_tar |-> 1],
     [risk_target |-> 0],
     [idio_volas |-> ConstVec(1)],
     [F |-> ConstVec(<<1>>)],
     [rho_covariance |-> 1],
     [rho_mean |-> ConstVec(1)],
     [idio_mean |-> FirstVec(1, 0)],
     [idio_mean |-> ZeroVec],
     [risk_free |-> 1],
     [factor_mean |-> <<1>>],
     [gamma_turn |-> 1],
     [gamma_risk |-> 1],
     [gamma_leverage |-> 1],
     [gamma_hold |-> 1, kappa_short |-> ConstVec(1), kappa_borrow |-> 1],
     [gamma_trade |-> 1, kappa_spread |-> ConstVec(1)],
     [gamma_trade |-> 1, kappa_impact |-> ConstVec(1)]}

Apply(r, o) == [f \in DOMAIN r |-> IF f \in DOMAIN o THEN o[f] ELSE r[f]]
Restrict(r, A) == [f \in A |-> r[f]]

\* the inputs of the sequential specification: BaseInput changed in up to two ways
Inputs == {Apply(Apply(BaseInput, o1), o2) : o1 \in Overrides, o2 \in Overrides}

\* the inputs of the concurrent specification: two portfolios, the first forced
\* out of its holdings by a leverage limit of 0, the second with no feasible cash
InputsConc ==
    {Apply(BaseInput, [L_max |-> 0, L_tar |-> 0]),
     Apply(BaseInput, [w_prev |-> ZeroVec, c_prev |-> 1,
                       c_lower |-> 1, c_upper |-> 0, c_min |-> 1, c_max |-> 0])}

\* ------------------------------------------------------------------ the solver

OptimalClass == {"optimal", "optimal_inaccurate"}

\* the points of the grid that satisfy the constraint list
Feasible(m, d, p) ==
    {q \in [Assets -> WGrid] \X WGrid : Constraints(m, d, p, q[1], q[2])}

\* the feasible points at which the objective is largest
Maximizers(m, d, p) ==
    LET feas == Feasible(m, d, p)
        vals == {Objective(m, d, p, q[1], q[2]) : q \in feas}
        best == CHOOSE v \in vals : \A u \in vals : u <= v
    IN  IF feas = {} THEN {}
        ELSE {q \in feas : Objective(m, d, p, q[1], q[2]) = best}

\* What problem.solve() can do: raise cp.SolverError (status and values stay None),
\* report the problem infeasible (values None) when no point satisfies the
\* constraints, or report an optimal-class status with a maximizer as the values.
SolveOutcomes(m, d, p) ==
    LET opt == Maximizers(m, d, p)
    IN  {[status |-> "None", w_value |-> None, c_value |-> None, raised |-> TRUE]}
        \cup (IF opt = {}
              THEN {[status |-> "infeasible", w_value |-> None, c_value |-> None,
                     raised |-> FALSE]}
              ELSE {[status |-> st, w_value |-> q[1], c_value |-> Some(q[2]),
                     raised |-> FALSE] : st \in OptimalClass, q \in opt})

\* ------------------------------------------------------------------ attribute reads

\* the attributes read while the variables, objective and constraints are built,
\* in the order of their first read
BuildReads(m) ==
    IF m = "paper"
    THEN << <<"data", "w_prev">>, <<"data", "F">>, <<"data", "factor_mean">>,
            <<"data", "idio_mean">>, <<"data", "risk_free">>, <<"param", "rho_mean">>,
            <<"data", "factor_covariance_chol">>, <<"data", "idio_volas">>,
            <<"param", "rho_covariance">>, <<"data", "kappa_short">>,
            <<"data", "kappa_borrow">>, <<"data", "kappa_spread">>,
            <<"data", "kappa_impact">>, <<"param", "gamma_risk">>,
            <<"param", "risk_target">>, <<"param", "gamma_hold">>,
            <<"param", "gamma_trade">>, <<"param", "gamma_turn">>,
            <<"param", "T_max">>, <<"data", "c_prev">>, <<"param", "c_lower">>,
            <<"param", "c_upper">>, <<"param", "w_lower">>, <<"param", "w_upper">>,
            <<"param", "z_lower">>, <<"param", "z_upper">>, <<"param", "L_max">> >>
    ELSE << <<"data", "w_prev">>, <<"data", "F">>, <<"data", "factor_mean">>,
            <<"data", "idio_mean">>, <<"data", "risk_free">>, <<"param", "rho_mean">>,
            <<"data", "factor_covariance_chol">>, <<"data", "idio_volas">>,
            <<"param", "rho_covariance">>, <<"data", "kappa_short">>,
            <<"data", "kappa_borrow">>, <<"data", "kappa_spread">>,
            <<"data", "kappa_impact">>, <<"param", "gamma_hold">>,
            <<"param", "gamma_trade">>, <<"param", "w_min">>, <<"param", "w_max">>,
            <<"param", "L_tar">>, <<"param", "c_min">>, <<"param", "c_max">>,
            <<"param", "z_min">>, <<"param", "z_max">>, <<"param", "T_tar">>,
            <<"param", "risk_target">>, <<"param", "gamma_risk">>,
            <<"param", "gamma_turn">>, <<"param", "T_max">>,
            <<"param", "gamma_leverage">>, <<"param", "L_max">> >>

HasAttr(d, p, read) == read[2] \in DOMAIN (IF read[1] = "data" THEN d ELSE p)

\* the first read that finds no attribute: its index in reads, or 0
FirstMissing(reads, d, p) ==
    LET missing == {k \in 1..Len(reads) : ~HasAttr(d, p, reads[k])}
    IN  IF missing = {} THEN 0 ELSE CHOOSE k \in missing : \A j \in missing : k <= j

\* ------------------------------------------------------------------ state

VARIABLES
    pc,       \* pc[i]: where call i stands
    impl,     \* impl[i]: the file whose markowitz call i runs, or "none"
    data,     \* data[i]: the Data argument of call i
    param,    \* param[i]: the Parameters argument of call i
    problem,  \* problem[i]: the cp.Problem of call i and its variables' values
    result,   \* result[i]: the tuple call i returned
    exc       \* exc[i]: the exception that left call i

vars == <<pc, impl, data, param, problem, result, exc>>

NoProblem ==
    [status |-> "None", w_value |-> None, c_value |-> None, raised |-> FALSE,
     solves |-> 0]
NoExc == [type |-> "none", arg |-> "none"]

Finished == {"RETURN_NEW", "RETURN_FALLBACK", "RAISED"}

Init ==
    /\ pc = [i \in Calls |-> "idle"]
    /\ impl = [i \in Calls |-> "none"]
    /\ data = [i \in Calls |-> None]
    /\ param = [i \in Calls |-> None]
    /\ problem = [i \in Calls |-> NoProblem]
    /\ result = [i \in Calls |-> None]
    /\ exc = [i \in Calls |-> NoExc]

\* The module is executed.  src/markowitz.py applies @dataclass without importing
\* it (the import sits inside the comment of line 13): executed by a plain import
\* the name is unbound and line 17 raises NameError; executed in a namespace that
\* binds dataclass already, the module loads.
Import(i) ==
    /\ pc[i] = "idle"
    /\ \E m \in Impls, dataclass_bound \in BOOLEAN :
          /\ impl' = [impl EXCEPT ![i] = m]
          /\ IF m = "paper" /\ ~dataclass_bound
             THEN /\ pc' = [pc EXCEPT ![i] = "RAISED"]
                  /\ exc' = [exc EXCEPT ![i] = [type |-> "NameError", arg |-> "dataclass"]]
             ELSE /\ pc' = [pc EXCEPT ![i] = "IMPORTED"]
                  /\ exc' = exc
    /\ UNCHANGED <<data, param, problem, result>>

\* markowitz(data, param) is entered with objects built from one of the inputs
Call(i, inputs, xds, xps) ==
    /\ pc[i] = "IMPORTED"
    /\ \E inp \in inputs, xd \in xds, xp \in xps :
          /\ data' = [data EXCEPT ![i] = Restrict(inp, DataFields(impl[i]) \cup xd)]
          /\ param' = [param EXCEPT ![i] = Restrict(inp, ParametersFields(impl[i]) \cup xp)]
    /\ pc' = [pc EXCEPT ![i] = "INIT"]
    /\ UNCHANGED <<impl, problem, result, exc>>

\* the variables, the objective, the constraints and the cp.Problem are built
Build(i) ==
    /\ pc[i] = "INIT"
    /\ LET reads == BuildReads(impl[i])
           k == FirstMissing(reads, data[i], param[i])
       IN  IF k = 0
           THEN /\ pc' = [pc EXCEPT ![i] = "BUILT"]
                /\ exc' = exc
           ELSE /\ pc' = [pc EXCEPT ![i] = "RAISED"]
                /\ exc' = [exc EXCEPT ![i] = [type |-> "AttributeError", arg |-> reads[k][2]]]
    /\ UNCHANGED <<impl, data, param, problem, result>>

\* problem.solve(): src/markowitz.py lets cp.SolverError leave the call,
\* src/experiments/markowitz.py catches it and goes on to the status check
Solve(i) ==
    /\ pc[i] = "BUILT"
    /\ \E o \in SolveOutcomes(impl[i], data[i], param[i]) :
          /\ problem' = [problem EXCEPT ![i] =
                [status |-> o.status, w_value |-> o.w_value, c_value |-> o.c_value,
                 raised |-> o.raised, solves |-> problem[i].solves + 1]]
          /\ IF o.raised /\ impl[i] = "paper"
             THEN /\ pc' = [pc EXCEPT ![i] = "RAISED"]
                  /\ exc' = [exc EXCEPT ![i] = [type |-> "SolverError", arg |-> "none"]]
             ELSE /\ pc' = [pc EXCEPT ![i] = "SOLVED"]
                  /\ exc' = exc
    /\ UNCHANGED <<impl, data, param, result>>

\* ReturnPaper writing the new weights back into the Data it was given
ReturnPaperUpdatingData(i) ==
    /\ pc' = [pc EXCEPT ![i] = "RETURN_NEW"]
    /\ result' = [result EXCEPT ![i] = <<problem[i].w_value, problem[i].c_value>>]
    /\ data' = [data EXCEPT ![i].w_prev = problem[i].w_value]
    /\ UNCHANGED <<impl, param, problem, exc>>

\* return w.value, c.value
ReturnPaper(i) ==
    /\ pc' = [pc EXCEPT ![i] = "RETURN_NEW"]
    /\ result' = [result EXCEPT ![i] = <<problem[i].w_value, problem[i].c_value>>]
    /\ UNCHANGED <<impl, data, param, problem, exc>>

\* the status check and the two return statements of src/experiments/markowitz.py
ReturnExp(i) ==
    IF problem[i].status \in OptimalClass
    THEN /\ pc' = [pc EXCEPT ![i] = "RETURN_NEW"]
         /\ result' = [result EXCEPT ![i] =
               <<problem[i].w_value, problem[i].c_value, problem[i], TRUE>>]
         /\ UNCHANGED <<impl, data, param, problem, exc>>
    ELSE IF "c_prev" \in DOMAIN data[i]
    THEN /\ pc' = [pc EXCEPT ![i] = "RETURN_FALLBACK"]
         /\ result' = [result EXCEPT ![i] =
               <<data[i].w_prev, Some(data[i].c_prev), problem[i], FALSE>>]
         /\ UNCHANGED <<impl, data, param, problem, exc>>
    ELSE /\ pc' = [pc EXCEPT ![i] = "RAISED"]
         /\ exc' = [exc EXCEPT ![i] = [type |-> "AttributeError", arg |-> "c_prev"]]
         /\ UNCHANGED <<impl, data, param, problem, result>>

Return(i) ==
    /\ pc[i] = "SOLVED"
    /\ IF impl[i] = "paper" THEN ReturnPaper(i) ELSE ReturnExp(i)

\* the call is over and its frame is gone; the caller may call again
Again(i) ==
    /\ pc[i] \in Finished
    /\ exc[i].type # "NameError"
    /\ pc' = [pc EXCEPT ![i] = "IMPORTED"]
    /\ data' = [data EXCEPT ![i] = None]
    /\ param' = [param EXCEPT ![i] = None]
    /\ problem' = [problem EXCEPT ![i] = NoProblem]
    /\ result' = [result EXCEPT ![i] = None]
    /\ exc' = [exc EXCEPT ![i] = NoExc]
    /\ UNCHANGED impl

\* one caller, one call at a time
Next ==
    \/ Import(1)
    \/ Call(1, Inputs, SUBSET ExtraDataAttrs, SUBSET ExtraParametersAttrs)
    \/ Build(1)
    \/ Solve(1)
    \/ Return(1)
    \/ Again(1)

Spec == Init /\ [][Next]_vars

\* callers in separate threads, each with its own input snapshot
NextConc ==
    \E i \in Calls :
        \/ Import(i)
        \/ Call(i, InputsConc, {ExtraDataAttrs}, {ExtraParametersAttrs})
        \/ Build(i)
        \/ Solve(i)
        \/ Return(i)
        \/ Again(i)

SpecConc == Init /\ [][NextConc]_vars

\* ------------------------------------------------------------------ claims

Returned(i) == pc[i] \in {"RETURN_NEW", "RETURN_FALLBACK"}
Entered(i) == pc[i] \notin {"idle", "IMPORTED"} /\ exc[i].type # "NameError"
Over(i) == pc[i] \in Finished /\ exc[i].type # "NameError"
HasFlag(i, b) == Len(result[i]) = 4 /\ result[i][4] = b

\* the call returned the supplied previous weights and cash with success false
ReturnedPrevious(i) ==
    /\ Returned(i)
    /\ HasFlag(i, FALSE)
    /\ result[i][1] = data[i].w_prev
    /\ "c_prev" \in DOMAIN data[i]
    /\ result[i][2] = Some(data[i].c_prev)

\* C1: on every status outside the optimal class the call returns exactly the
\* previous weights and previous cash with success false, never the solver's
\* variable values or None.  (Stated for the solves that return; the solve that
\* raises, which leaves no status at all, is the case of C2.)
C1_FallbackOnNonOptimal ==
    \A i \in Calls :
        (/\ Over(i)
         /\ problem[i].solves > 0
         /\ ~problem[i].raised
         /\ problem[i].status \notin OptimalClass)
            => ReturnedPrevious(i)

\* C2: when the solver raises during solve, no exception leaves markowitz: the
\* call returns normally with success false.
C2_SolverFaultCaught ==
    \A i \in Calls :
        problem[i].raised =>
            /\ exc[i].type = "none"
            /\ pc[i] \in Finished => (Returned(i) /\ HasFlag(i, FALSE))

\* C3: whenever a call returns with success true, the returned weights and cash
\* satisfy sum(weights) + cash = 1.
C3_BudgetOnSuccess ==
    \A i \in Calls :
        (Returned(i) /\ HasFlag(i, TRUE)) =>
            /\ result[i][1] # None
            /\ result[i][2] # None
            /\ SumSeq(result[i][1]) + result[i][2][1] = 1

\* a call returned success true with weights that differ from the previous ones,
\* for a previous allocation that is itself off the budget
C3_Witness ==
    \E i \in Calls :
        /\ Returned(i) /\ HasFlag(i, TRUE)
        /\ result[i][1] # data[i].w_prev
        /\ "c_prev" \in DOMAIN data[i]
        /\ SumSeq(data[i].w_prev) + data[i].c_prev # 1

\* some lower bound of the Parameters exceeds its paired upper bound
InvalidBounds(m, p) ==
    IF m = "paper"
    THEN \/ ~VecLeq(p.w_lower, p.w_upper)
         \/ p.c_lower > p.c_upper
         \/ ~VecLeq(p.z_lower, p.z_upper)
    ELSE \/ ~VecLeq(p.w_min, p.w_max)
         \/ p.c_min > p.c_max
         \/ ~VecLeq(p.z_min, p.z_max)

C5_CallOrder ==
    \A i \in Calls :
        Over(i) =>
            /\ problem[i].solves = 1
            /\ problem[i].status \in OptimalClass => pc[i] = "RETURN_NEW"
            /\ problem[i].status \notin OptimalClass => pc[i] = "RETURN_FALLBACK"

\* C6: the constraint set imposes one cash convention only, so the feasible set
\* is the same whatever the previous cash is (in particular whether or not
\* sum(previous weights) + previous cash = 1).
C6_FeasibleSetIgnoresPreviousCash ==
    \A i \in Calls :
        (pc[i] = "BUILT" /\ "c_prev" \in DOMAIN data[i]) =>
            \A cp \in WGrid :
                Feasible(impl[i], [data[i] EXCEPT !.c_prev = cp], param[i])
                    = Feasible(impl[i], data[i], param[i])

\* every turnover parameter the Parameters object carries is 0
TurnoverLimitZero(p) ==
    /\ "T_max" \in DOMAIN p => p.T_max = 0
    /\ "T_tar" \in DOMAIN p => p.T_tar = 0

\* C7: with the turnover limit 0 the returned weights equal the previous weights,
\* whether the call succeeds or falls back.  (Stated for the calls that return a
\* vector; a returned None is the failure of C1.)
C7_ScenarioD ==
    \A i \in Calls :
        (Returned(i) /\ TurnoverLimitZero(param[i]) /\ result[i][1] # None)
            => result[i][1] = data[i].w_prev

\* the trade bounds are both 0 for every asset
TradeBoundsZero(m, p) ==
    IF m = "paper"
    THEN p.z_lower = ZeroVec /\ p.z_upper = ZeroVec
    ELSE p.z_min = ZeroVec /\ p.z_max = ZeroVec

\* the previous allocation, where the Data carries a previous cash, is on the budget
PreviousOnBudget(d) ==
    "c_prev" \in DOMAIN d => SumSeq(d.w_prev) + d.c_prev = 1

\* C8: with the trade bounds fixed at 0 the returned weights and cash equal the
\* previous weights and previous cash, also when the program is infeasible.
\* (Stated, as Scenario B is, for a previous allocation on the budget.)
C8_ScenarioB ==
    \A i \in Calls :
        (/\ Returned(i)
         /\ TradeBoundsZero(impl[i], param[i])
         /\ PreviousOnBudget(data[i])) =>
            /\ result[i][1] = data[i].w_prev
            /\ "c_prev" \in DOMAIN data[i] => result[i][2] = Some(data[i].c_prev)

\* what call i holds
Frame(i) == <<pc[i], impl[i], data[i], param[i], problem[i], result[i], exc[i]>>

\* C9: a call never changes its Data or Parameters, a step of one call changes
\* nothing another call holds, and calls that got the same inputs and the same
\* solver outcome end the same way, whatever ran in between.
C9_FrameAndReentrancy ==
    /\ [][\A i \in Calls :
            /\ (Entered(i) /\ pc'[i] # "IMPORTED")
                  => (data'[i] = data[i] /\ param'[i] = param[i])
            /\ (\E j \in Calls \ {i} : Frame(j)' # Frame(j))
                  => Frame(i)' = Frame(i)]_vars
    /\ [](\A i, j \in Calls :
            (/\ Over(i) /\ Over(j)
             /\ impl[i] = impl[j]
             /\ data[i] = data[j] /\ param[i] = param[j]
             /\ problem[i] = problem[j])
                => (pc[i] = pc[j] /\ result[i] = result[j] /\ exc[i] = exc[j]))

\* two calls of the same function overlap on different inputs: one has returned
\* new weights while the other has built its problem and not yet solved it
C9_Witness ==
    \E i, j \in Calls :
        /\ i # j
        /\ impl[i] = impl[j]
        /\ pc[i] = "RETURN_NEW" /\ result[i][1] # data[i].w_prev
        /\ pc[j] = "BUILT"
        /\ data[i] # data[j]

\* the objects carry exactly the fields their dataclasses declare
WellFormed(i) ==
    /\ DOMAIN data[i] = DataFields(impl[i])
    /\ DOMAIN param[i] = ParametersFields(impl[i])

\* C10: every attribute markowitz reads is a declared field, so for well-formed
\* Data and Parameters no read fails, building completes and the solve step is
\* reached.
C10_DeclaredFieldsSuffice ==
    \A i \in Calls :
        (Entered(i) /\ WellFormed(i)) =>
            /\ exc[i].type # "AttributeError"
            /\ pc[i] \in Finished => problem[i].solves > 0

====
